---- MODULE Spec2Model ----
(***************************************************************************)
(* Model of scripts/check_runtime_signatures.py: the runtime lock          *)
(* fingerprint checker.  Strings are sequences of one-character strings so *)
(* that strip(), upper(), splitlines(), the substring test and the         *)
(* FPR_RE search are computed character by character.                      *)
(***************************************************************************)
EXTENDS Integers, Sequences, FiniteSets, TLC

VARIABLES
    lock,            \* the parsed lock document (json.load result)
    loaded,          \* TRUE once json.load returned
    pc,              \* position of the script
    chanIdx,         \* number of channels whose header was printed
    channel_name,    \* loop variable of line 48
    compQueue,       \* rest of the iterator sorted(channel.items())
    component,       \* loop variable of line 50: the component's value
    component_name,  \* loop variable of line 50
    signature_url,   \* local of line 51
    expected,        \* local of line 52
    actual,          \* local of line 58
    out,             \* gpg output captured at line 27
    exc,             \* exception in flight ("" when none)
    mismatches,      \* counter of line 46
    report,          \* lines printed so far (kind, channel, component)
    lastLine,        \* full content of the line printed last
    okCount,         \* number of printed lines with status=OK
    tmpfiles,        \* temporary files that exist on disk
    tmpCreated,      \* temporary files created so far (unique names)
    tf,              \* the open NamedTemporaryFile (0 when none)
    fetches,         \* urlopen calls made for the current component
    written,         \* body written and flushed for the current component
    inspections,     \* gpg invocations made for the current component
    ret              \* return value of main (-1 while running)

vars == <<lock, loaded, pc, chanIdx, channel_name, compQueue, component,
          component_name,
          signature_url, expected, actual, out, exc, mismatches, report,
          lastLine, okCount, tmpfiles, tmpCreated, tf, fetches, written,
          inspections, ret>>

----------------------------------------------------------------------------
(* Bounds of the model *)

MaxChannels == 2
MaxComponents == 2

----------------------------------------------------------------------------
(* Strings *)

Rep(c, n) == [i \in 1..n |-> c]

LowerCase == <<"a","b","c","d","e","f","g","h","i","j","k","l","m",
               "n","o","p","q","r","s","t","u","v","w","x","y","z">>
UpperCase == <<"A","B","C","D","E","F","G","H","I","J","K","L","M",
               "N","O","P","Q","R","S","T","U","V","W","X","Y","Z">>

\* str.upper() on one character
UpperChar(c) ==
    IF \E i \in 1..26 : LowerCase[i] = c
    THEN UpperCase[CHOOSE i \in 1..26 : LowerCase[i] = c]
    ELSE c

\* str.upper()
Upper(s) == [i \in 1..Len(s) |-> UpperChar(s[i])]

Whitespace == {" ", "\t", "\n", "\r"}

\* variant of Strip: the value is used as it is written in the document
StripNot(s) == s

\* str.strip(): drop leading and trailing whitespace
Strip(s) ==
    LET keep == {i \in 1..Len(s) : s[i] \notin Whitespace}
    IN  IF keep = {} THEN <<>>
        ELSE LET lo == CHOOSE i \in keep : \A j \in keep : i <= j
                 hi == CHOOSE i \in keep : \A j \in keep : j <= i
             IN  SubSeq(s, lo, hi)

\* needle in hay
Contains(hay, needle) ==
    \E p \in 0..(Len(hay) - Len(needle)) :
        \A k \in 1..Len(needle) : hay[p + k] = needle[k]

\* str.splitlines(): "\n", "\r" and "\r\n" end a line; no trailing empty line
RECURSIVE SplitLines(_)
SplitLines(s) ==
    IF s = <<>> THEN <<>>
    ELSE LET brk == {i \in 1..Len(s) : s[i] \in {"\n", "\r"}}
         IN  IF brk = {} THEN <<s>>
             ELSE LET i == CHOOSE b \in brk : \A c \in brk : b <= c
                      j == IF s[i] = "\r" /\ i < Len(s) /\ s[i + 1] = "\n"
                           THEN i + 1 ELSE i
                  IN  <<SubSeq(s, 1, i - 1)>> \o SplitLines(SubSeq(s, j + 1, Len(s)))

\* code point order of the characters used in component names
CodePoint(c) ==
    CASE c = "B" -> 66
      [] c = "a" -> 97
      [] c = "b" -> 98
      [] OTHER   -> 0

\* Python's str.__lt__: lexicographic by code point, a proper prefix is smaller
StrLess(s, t) ==
    \E k \in 0..Len(s) :
        /\ k <= Len(t)
        /\ \A i \in 1..k : s[i] = t[i]
        /\ \/ k = Len(s) /\ k < Len(t)
           \/ k < Len(s) /\ k < Len(t) /\ CodePoint(s[k + 1]) < CodePoint(t[k + 1])

----------------------------------------------------------------------------
(* Fingerprint extraction from the packet listing, lines 19 and 32-38 *)

FprLen == 40

HexDigits == {"0","1","2","3","4","5","6","7","8","9","A","B","C","D","E","F"}

\* one character of [A-F0-9] under re.IGNORECASE
IsHex(c) == UpperChar(c) \in HexDigits

\* variant of FprSearch: the rightmost run of FprLen hex characters
FprSearchLast(s) ==
    LET starts == {p \in 1..(Len(s) - FprLen + 1) :
                      \A k \in 0..(FprLen - 1) : IsHex(s[p + k])}
    IN  IF starts = {} THEN <<>>
        ELSE LET p == CHOOSE q \in starts : \A r \in starts : r <= q
             IN  SubSeq(s, p, p + FprLen - 1)

\* FPR_RE.search(s): the leftmost run of FprLen hex characters, <<>> for None
FprSearch(s) ==
    LET starts == {p \in 1..(Len(s) - FprLen + 1) :
                      \A k \in 0..(FprLen - 1) : IsHex(s[p + k])}
    IN  IF starts = {} THEN <<>>
        ELSE LET p == CHOOSE q \in starts : \A r \in starts : q <= r
             IN  SubSeq(s, p, p + FprLen - 1)

Marker == <<"i","s","s","u","e","r"," ","f","p","r"," ","v","4">>

\* the for loop of lines 32-38 over out.splitlines()
RECURSIVE ScanLines(_)
ScanLines(lines) ==
    IF lines = <<>> THEN <<>>
    ELSE LET line == Head(lines)
         IN  IF ~Contains(line, Marker) THEN ScanLines(Tail(lines))
             ELSE LET match == FprSearch(Upper(line))
                  IN  IF match # <<>> THEN Upper(match)
                      ELSE ScanLines(Tail(lines))

\* the part of extract_signature_fingerprint after the with block
ParseFingerprint(o) == ScanLines(SplitLines(o))

----------------------------------------------------------------------------
(* The lock document and the component records, as json.load returns them *)

JStr(s) == [t |-> "str", s |-> s]
JNull   == [t |-> "null", s |-> <<>>]

\* str(v) of a JSON string or of None
PyStr(v) == IF v.t = "null" THEN <<"N","o","n","e">> ELSE v.s

\* dict.get(key, default)
Get(d, key, default) == IF key \in d.keys THEN d[key] ELSE default

Dict(ks, url, fpr) ==
    [t |-> "dict", keys |-> ks, signature_url |-> url, public_key_fingerprint |-> fpr]

\* a component value that is a JSON string and not an object
NotADict == [t |-> "str", keys |-> {}, signature_url |-> JNull,
             public_key_fingerprint |-> JNull]

FprMixed == Rep("a", 20) \o Rep("A", 19) \o <<"4">>
FprOther == Rep("B", 39) \o <<"4">>

\* before the first component is read
NoComponent == [t |-> "none", keys |-> {}, signature_url |-> JNull,
                public_key_fingerprint |-> JNull]

BothKeys == {"signature_url", "public_key_fingerprint"}

ComponentRecords ==
    { Dict({}, JNull, JNull),
      Dict(BothKeys, JStr(<<>>), JStr(FprMixed)),
      Dict(BothKeys, JStr(<<" ", "\t">>), JStr(FprMixed)),
      Dict(BothKeys, JStr(<<" ", "u", " ">>), JStr(<<" ">> \o FprMixed \o <<"\n">>)),
      Dict({"signature_url"}, JStr(<<"u">>), JNull),
      Dict(BothKeys, JNull, JStr(FprMixed)),
      NotADict }

\* urlopen can only succeed on a URL it can parse
Fetchable(url) == url = <<"u">>

\* packet listings gpg may print
GpgOutputs ==
    { <<"s","i","g","\n">>,
      <<"\t","(">> \o Marker \o <<" ">> \o FprMixed \o <<")","\n">>,
      <<"\t","(">> \o Marker \o <<" ">> \o FprOther \o <<")","\n">>,
      Marker \o <<"\n">> }

ComponentNames == { <<"a">>, <<"a","b">>, <<"B">> }
ChannelNames == <<"beta", "stable", "edge", "nightly">>

Injective(f) == \A i, j \in DOMAIN f : i # j => f[i] # f[j]

Min(a, b) == IF a < b THEN a ELSE b

\* a channel's component names in document order (dict keys are unique)
ItemSeqs ==
    {f \in UNION {[1..n -> ComponentNames] :
                     n \in 0..Min(MaxComponents, Cardinality(ComponentNames))} :
        Injective(f)}

RECURSIVE TotalItems(_)
TotalItems(chs) ==
    IF chs = <<>> THEN 0 ELSE Len(Head(chs).items) + TotalItems(Tail(chs))

\* channel keys in stored order: not the sorted order of the names
ChannelKey(n, i) == ChannelNames[n + 1 - i]

ChannelSeqs ==
    {chs \in UNION {[1..n -> [name : {""}, items : ItemSeqs]] : n \in 0..MaxChannels} :
        TotalItems(chs) <= MaxComponents}

LockDocs ==
    { [keys |-> {}, channels |-> <<>>] } \cup
    { [keys |-> {"channels"},
       channels |-> [i \in 1..Len(chs) |->
                        [name |-> ChannelKey(Len(chs), i), items |-> chs[i].items]]] :
        chs \in ChannelSeqs }

\* lock.get("channels", {})
Channels(l) == IF "channels" \in l.keys THEN l.channels ELSE <<>>

\* sorted(): insertion of one (name, component) pair; names are unique, so the
\* tuple comparison is decided by the name
RECURSIVE Insert(_, _)
Insert(x, sorted) ==
    IF sorted = <<>> THEN <<x>>
    ELSE IF StrLess(x, Head(sorted)) THEN <<x>> \o sorted
    ELSE <<Head(sorted)>> \o Insert(x, Tail(sorted))

\* variant of SortedItems: the items in document order
SortedItemsDocOrder(items) == items

RECURSIVE SortedItems(_)
SortedItems(items) ==
    IF items = <<>> THEN <<>>
    ELSE Insert(Head(items), SortedItems(Tail(items)))

----------------------------------------------------------------------------
(* Printed lines *)

NoLine == [kind |-> "none", name |-> <<>>, expected |-> <<>>, actual |-> <<>>,
           status |-> "", msg |-> ""]

HeaderLine == [NoLine EXCEPT !.kind = "header"]

MissingLine(n) == [NoLine EXCEPT !.kind = "missing", !.name = n]

ErrorLine(n, e) == [NoLine EXCEPT !.kind = "error", !.name = n, !.msg = e]

StatusLine(n, e, a, st) ==
    [NoLine EXCEPT !.kind = "status", !.name = n, !.expected = e, !.actual = a,
                   !.status = st]

SummaryLine(m) ==
    [NoLine EXCEPT !.kind = "summary", !.msg = IF m # 0 THEN "Found" ELSE "All"]

Entry(k, c, n) == [kind |-> k, channel |-> c, name |-> n]

\* variant of CloseTemp: the file is closed but stays on disk
CloseTempKeep(files, f) == files

\* closing the NamedTemporaryFile(delete=True) unlinks it
CloseTemp(files, f) == files \ {f}

\* line 63
Status(a, e) == IF a = e THEN "OK" ELSE "MISMATCH"

\* variant of Counted: a MISMATCH is printed but not counted
CountedNever(m, status) == m

\* lines 67-68
Counted(m, status) == IF status # "OK" THEN m + 1 ELSE m

\* variant of ExitCode: the count itself is returned
ExitCodeCount(m) == m

\* lines 70-74
ExitCode(m) == IF m # 0 THEN 1 ELSE 0

----------------------------------------------------------------------------
(* The run *)

Init ==
    /\ lock \in LockDocs
    /\ loaded = FALSE
    /\ pc = "load"
    /\ chanIdx = 0
    /\ channel_name = ""
    /\ compQueue = <<>>
    /\ component = NoComponent
    /\ component_name = <<>>
    /\ signature_url = <<>>
    /\ expected = <<>>
    /\ actual = <<>>
    /\ out = <<>>
    /\ exc = ""
    /\ mismatches = 0
    /\ report = <<>>
    /\ lastLine = NoLine
    /\ okCount = 0
    /\ tmpfiles = {}
    /\ tmpCreated = 0
    /\ tf = 0
    /\ fetches = 0
    /\ written = FALSE
    /\ inspections = 0
    /\ ret = -1

\* lines 42-47: open and parse the lock file; a failure is not caught
Load ==
    /\ pc = "load"
    /\ \E ok \in BOOLEAN :
          /\ loaded' = ok
          /\ pc' = IF ok THEN "channels" ELSE "crashed"
    /\ mismatches' = 0
    /\ lastLine' = NoLine
    /\ UNCHANGED <<lock, component, chanIdx, channel_name, compQueue, component_name,
                   signature_url, expected, actual, out, exc, report, okCount,
                   tmpfiles, tmpCreated, tf, fetches, written, inspections, ret>>

\* lines 48-50: next channel, its header, and the sorted iterator of its items
NextChannel ==
    /\ pc = "channels"
    /\ chanIdx < Len(Channels(lock))
    /\ LET ch == Channels(lock)[chanIdx + 1]
       IN  /\ chanIdx' = chanIdx + 1
           /\ channel_name' = ch.name
           /\ report' = Append(report, Entry("header", ch.name, <<>>))
           /\ lastLine' = HeaderLine
           /\ compQueue' = SortedItems(ch.items)
    /\ pc' = "components"
    /\ UNCHANGED <<lock, component, loaded, component_name, signature_url, expected, actual,
                   out, exc, mismatches, okCount, tmpfiles, tmpCreated, tf,
                   fetches, written, inspections, ret>>

\* line 50, iterator exhausted: back to the channel loop
EndChannel ==
    /\ pc = "components"
    /\ compQueue = <<>>
    /\ pc' = "channels"
    /\ lastLine' = NoLine
    /\ UNCHANGED <<lock, component, loaded, chanIdx, channel_name, compQueue, component_name,
                   signature_url, expected, actual, out, exc, mismatches, report,
                   okCount, tmpfiles, tmpCreated, tf, fetches, written,
                   inspections, ret>>

\* lines 50-56: next component; a value without .get raises outside the try
NextComponent ==
    /\ pc = "components"
    /\ compQueue # <<>>
    /\ component_name' = Head(compQueue)
    /\ compQueue' = Tail(compQueue)
    /\ fetches' = 0
    /\ written' = FALSE
    /\ inspections' = 0
    /\ actual' = <<>>
    /\ \E c \in ComponentRecords :
        /\ component' = c
        /\ IF c.t # "dict"
          THEN /\ pc' = "crashed"
               /\ lastLine' = NoLine
               /\ UNCHANGED <<signature_url, expected, mismatches, report>>
          ELSE LET url == Strip(PyStr(Get(c, "signature_url", JStr(<<>>))))
                   fpr == Upper(Strip(PyStr(Get(c, "public_key_fingerprint",
                                                  JStr(<<>>)))))
               IN  /\ signature_url' = url
                   /\ expected' = fpr
                   /\ IF url = <<>>
                      THEN /\ report' = Append(report,
                                   Entry("component", channel_name, Head(compQueue)))
                           /\ lastLine' = MissingLine(Head(compQueue))
                           /\ mismatches' = mismatches + 1
                           /\ pc' = "components"
                      ELSE /\ pc' = "tempfile"
                           /\ lastLine' = NoLine
                           /\ UNCHANGED <<mismatches, report>>
    /\ UNCHANGED <<lock, loaded, chanIdx, channel_name, out, exc, okCount,
                   tmpfiles, tmpCreated, tf, ret>>

\* line 23: create the temporary file
TempFile ==
    /\ pc = "tempfile"
    /\ lastLine' = NoLine
    /\ \/ /\ tmpCreated' = tmpCreated + 1
          /\ tf' = tmpCreated + 1
          /\ tmpfiles' = tmpfiles \cup {tmpCreated + 1}
          /\ pc' = "urlopen"
          /\ exc' = exc
       \/ /\ exc' = "mkstemp"
          /\ pc' = "except"
          /\ UNCHANGED <<tmpCreated, tf, tmpfiles>>
    /\ UNCHANGED <<lock, component, loaded, chanIdx, channel_name, compQueue, component_name,
                   signature_url, expected, actual, out, mismatches, report,
                   okCount, fetches, written, inspections, ret>>

\* variant of UrlOpen: a failed GET is tried once more
UrlOpenRetry ==
    /\ pc = "urlopen"
    /\ lastLine' = NoLine
    /\ fetches' = fetches + 1
    /\ \/ /\ Fetchable(signature_url)
          /\ pc' = "write"
          /\ UNCHANGED <<exc, tmpfiles, tf>>
       \/ /\ fetches = 0
          /\ pc' = "urlopen"
          /\ UNCHANGED <<exc, tmpfiles, tf>>
       \/ /\ fetches > 0
          /\ exc' = "urlopen"
          /\ tmpfiles' = CloseTemp(tmpfiles, tf)
          /\ tf' = 0
          /\ pc' = "except"
    /\ UNCHANGED <<lock, component, loaded, chanIdx, channel_name, compQueue, component_name,
                   signature_url, expected, actual, out, mismatches, report,
                   okCount, tmpCreated, written, inspections, ret>>

\* line 24: the HTTP GET; on failure the with block of line 23 closes the file
UrlOpen ==
    /\ pc = "urlopen"
    /\ lastLine' = NoLine
    /\ fetches' = fetches + 1
    /\ \/ /\ Fetchable(signature_url)
          /\ pc' = "write"
          /\ UNCHANGED <<exc, tmpfiles, tf>>
       \/ /\ exc' = "urlopen"
          /\ tmpfiles' = CloseTemp(tmpfiles, tf)
          /\ tf' = 0
          /\ pc' = "except"
    /\ UNCHANGED <<lock, component, loaded, chanIdx, channel_name, compQueue, component_name,
                   signature_url, expected, actual, out, mismatches, report,
                   okCount, tmpCreated, written, inspections, ret>>

\* lines 25-26: write the body and flush
WriteFlush ==
    /\ pc = "write"
    /\ lastLine' = NoLine
    /\ \/ /\ written' = TRUE
          /\ pc' = "gpg"
          /\ UNCHANGED <<exc, tmpfiles, tf>>
       \/ /\ exc' = "write"
          /\ tmpfiles' = CloseTemp(tmpfiles, tf)
          /\ tf' = 0
          /\ pc' = "except"
          /\ written' = written
    /\ UNCHANGED <<lock, component, loaded, chanIdx, channel_name, compQueue, component_name,
                   signature_url, expected, actual, out, mismatches, report,
                   okCount, tmpCreated, fetches, inspections, ret>>

\* lines 27-31: gpg --list-packets, then the with block closes the file
ListPackets ==
    /\ pc = "gpg"
    /\ lastLine' = NoLine
    /\ inspections' = inspections + 1
    /\ tmpfiles' = CloseTemp(tmpfiles, tf)
    /\ tf' = 0
    /\ \/ /\ out' \in GpgOutputs
          /\ pc' = "parse"
          /\ exc' = exc
       \/ /\ exc' = "gpg"
          /\ pc' = "except"
          /\ out' = out
    /\ UNCHANGED <<lock, component, loaded, chanIdx, channel_name, compQueue, component_name,
                   signature_url, expected, actual, mismatches, report, okCount,
                   tmpCreated, fetches, written, ret>>

\* lines 32-38 and the assignment of line 58
Parse ==
    /\ pc = "parse"
    /\ lastLine' = NoLine
    /\ actual' = ParseFingerprint(out)
    /\ pc' = "compare"
    /\ UNCHANGED <<lock, component, loaded, chanIdx, channel_name, compQueue, component_name,
                   signature_url, expected, out, exc, mismatches, report, okCount,
                   tmpfiles, tmpCreated, tf, fetches, written, inspections, ret>>

\* variant of Except: the exception is not caught and ends the run
ExceptAbort ==
    /\ pc = "except"
    /\ lastLine' = NoLine
    /\ pc' = "crashed"
    /\ UNCHANGED <<lock, component, loaded, chanIdx, channel_name, compQueue, component_name,
                   signature_url, expected, actual, out, exc, mismatches, report,
                   okCount, tmpfiles, tmpCreated, tf, fetches, written,
                   inspections, ret>>

\* lines 59-62: any Exception of the extraction
Except ==
    /\ pc = "except"
    /\ report' = Append(report, Entry("component", channel_name, component_name))
    /\ lastLine' = ErrorLine(component_name, exc)
    /\ mismatches' = mismatches + 1
    /\ exc' = ""
    /\ pc' = "components"
    /\ UNCHANGED <<lock, component, loaded, chanIdx, channel_name, compQueue, component_name,
                   signature_url, expected, actual, out, okCount, tmpfiles,
                   tmpCreated, tf, fetches, written, inspections, ret>>

\* lines 63-68
Compare ==
    /\ pc = "compare"
    /\ LET status == Status(actual, expected)
       IN  /\ report' = Append(report, Entry("component", channel_name, component_name))
           /\ lastLine' = StatusLine(component_name, expected, actual, status)
           /\ okCount' = IF status = "OK" THEN okCount + 1 ELSE okCount
           /\ mismatches' = Counted(mismatches, status)
    /\ out' = <<>>
    /\ pc' = "components"
    /\ UNCHANGED <<lock, component, loaded, chanIdx, channel_name, compQueue, component_name,
                   signature_url, expected, actual, exc, tmpfiles, tmpCreated, tf,
                   fetches, written, inspections, ret>>

\* lines 70-74: the summary line and the return value
Finish ==
    /\ pc = "channels"
    /\ chanIdx = Len(Channels(lock))
    /\ report' = Append(report, Entry("summary", "", <<>>))
    /\ lastLine' = SummaryLine(mismatches)
    /\ ret' = ExitCode(mismatches)
    /\ pc' = "done"
    /\ UNCHANGED <<lock, component, loaded, chanIdx, channel_name, compQueue, component_name,
                   signature_url, expected, actual, out, exc, mismatches, okCount,
                   tmpfiles, tmpCreated, tf, fetches, written, inspections>>

Next ==
    \/ Load
    \/ NextChannel
    \/ EndChannel
    \/ NextComponent
    \/ TempFile
    \/ UrlOpen
    \/ WriteFlush
    \/ ListPackets
    \/ Parse
    \/ Except
    \/ Compare
    \/ Finish

Spec == Init /\ [][Next]_vars

----------------------------------------------------------------------------
(* The fingerprint parser on its own: packet listings of up to MaxLines lines *)

MaxLines == 2

ListingLines ==
    { <<"s","i","g">>,
      Marker,
      <<"(">> \o Marker \o <<" ">> \o FprMixed \o <<")">>,
      Marker \o <<" ">> \o Rep("c", FprLen - 1) \o <<" ">> \o Rep("9", FprLen - 1),
      Marker \o <<" ">> \o Rep("d", FprLen) \o <<"e">>,
      FprOther \o <<" ">> \o Marker \o <<" ">> \o FprMixed,
      <<"I","S","S","U","E","R"," ","F","P","R"," ","V","4"," ">> \o FprMixed,
      FprOther,
      Marker \o <<" ","g">> \o Rep("0", FprLen - 1) \o <<"f">> }

RECURSIVE Join(_, _)
Join(lines, sep) ==
    IF lines = <<>> THEN <<>> ELSE Head(lines) \o sep \o Join(Tail(lines), sep)

Listings ==
    { Join(ls, sep) :
        ls \in UNION {[1..n -> ListingLines] : n \in 0..MaxLines},
        sep \in { <<"\n">>, <<"\r","\n">> } }

InitFpr ==
    /\ lock = [keys |-> {}, channels |-> <<>>]
    /\ loaded = TRUE
    /\ pc = "parse"
    /\ chanIdx = 0
    /\ channel_name = ""
    /\ compQueue = <<>>
    /\ component = NoComponent
    /\ component_name = <<>>
    /\ signature_url = <<>>
    /\ expected = <<>>
    /\ actual = <<>>
    /\ out \in Listings
    /\ exc = ""
    /\ mismatches = 0
    /\ report = <<>>
    /\ lastLine = NoLine
    /\ okCount = 0
    /\ tmpfiles = {}
    /\ tmpCreated = 0
    /\ tf = 0
    /\ fetches = 0
    /\ written = FALSE
    /\ inspections = 0
    /\ ret = -1

NextFpr == Parse

SpecFpr == InitFpr /\ [][NextFpr]_vars

----------------------------------------------------------------------------
(* Properties *)

\* number of component lines printed so far
CompLines(r) == Cardinality({i \in 1..Len(r) : r[i].kind = "component"})

\* the script is inside one component's check
InFlight == pc \in {"tempfile", "urlopen", "write", "gpg", "parse", "compare", "except"}

\* the expected fingerprint as the document states it, trimmed and uppercased
DeclaredFpr(c) == Upper(Strip(PyStr(Get(c, "public_key_fingerprint", JStr(<<>>)))))

\* signature_url absent, empty or made of whitespace only
Blank(c) ==
    /\ c.t = "dict"
    /\ \/ "signature_url" \notin c.keys
       \/ /\ c.signature_url.t = "str"
          /\ \A i \in 1..Len(c.signature_url.s) : c.signature_url.s[i] \in Whitespace

\* C1: a component line says OK if and only if the extraction returned a
\* non-empty fingerprint equal to the declared fingerprint compared without
\* regard to case; an empty extraction result, an extraction error and a
\* missing signature_url are never OK.
C1_OkIffNonEmptyMatch ==
    lastLine.kind \in {"missing", "error", "status"} =>
        ( lastLine.status = "OK" <=>
            /\ lastLine.kind = "status"
            /\ actual # <<>>
            /\ actual = DeclaredFpr(component) )

\* C2: main returns 0 if and only if the final mismatch count is 0 and 1
\* otherwise; nothing is returned before the end of the loops, and a document
\* without channels yields 0.
C2_ExitCode ==
    /\ pc = "done" => /\ ret \in {0, 1}
                      /\ ret = 0 <=> mismatches = 0
                      /\ Channels(lock) = <<>> => ret = 0
    /\ pc # "done" => ret = -1

C2_Witness == pc = "done" /\ ret = 1 /\ mismatches = 2

\* C3: the mismatch counter always equals the number of component lines
\* printed so far that are not OK lines; a step adds 1 exactly when it prints a
\* missing, error or MISMATCH line, adds 0 otherwise, and never subtracts.
C3_MismatchCount ==
    /\ [](mismatches = CompLines(report) - okCount)
    /\ [][ LET nonOk == \/ lastLine'.kind \in {"missing", "error"}
                        \/ lastLine'.kind = "status" /\ lastLine'.status # "OK"
           IN  mismatches' = IF nonOk THEN mismatches + 1 ELSE mismatches ]_vars

C3_Witness == pc = "done" /\ mismatches = 1 /\ okCount = 1

\* C4: once the lock document is loaded the run never ends abnormally, and
\* when it ends it has printed one line for every declared component.
C4_AlwaysCompletes ==
    /\ pc = "crashed" => ~loaded
    /\ pc = "done" => CompLines(report) = TotalItems(Channels(lock))

\* C5: every failure inside the extraction reaches the handler of main, which
\* prints the error line with the message, adds exactly 1 to the counter,
\* prints no status line and returns to the component loop with the rest of
\* the components untouched.
C5_ErrorReported ==
    [][ /\ (exc = "" /\ exc' # "") =>
              /\ pc \in {"tempfile", "urlopen", "write", "gpg"}
              /\ pc' = "except"
              /\ UNCHANGED <<mismatches, report, okCount>>
        /\ pc = "except" =>
              /\ lastLine' = ErrorLine(component_name, exc)
              /\ report' = Append(report, Entry("component", channel_name, component_name))
              /\ mismatches' = mismatches + 1
              /\ okCount' = okCount
              /\ pc' = "components"
              /\ compQueue' = compQueue ]_vars

C5_Witness ==
    /\ pc = "components"
    /\ lastLine.kind = "error"
    /\ lastLine.msg = "urlopen"
    /\ compQueue # <<>>

\* C6: a component whose signature_url is absent, empty or whitespace-only is
\* reported as missing with exactly 1 added to the counter, and no temporary
\* file, fetch or inspector run is ever made for it.
C6_MissingUrl ==
    /\ [](Blank(component) =>
            /\ ~InFlight
            /\ fetches = 0 /\ inspections = 0 /\ ~written
            /\ tf = 0 /\ tmpfiles = {})
    /\ [][ (pc = "components" /\ compQueue # <<>> /\ Blank(component')) =>
              /\ lastLine' = MissingLine(Head(compQueue))
              /\ mismatches' = mismatches + 1
              /\ tmpCreated' = tmpCreated
              /\ pc' = "components" ]_vars

C6_Witness ==
    /\ lastLine.kind = "missing"
    /\ component = Dict(BothKeys, JStr(<<" ", "\t">>), JStr(FprMixed))
    /\ mismatches = 2

\* C7: the temporary file exists only between its creation and the end of the
\* with block; it is gone whenever the extraction has returned or failed, so
\* none exists between components or at the end, and never more than one.
C7_TempFileRemoved ==
    /\ Cardinality(tmpfiles) <= 1
    /\ pc \in {"urlopen", "write", "gpg"} => tmpfiles = {tf} /\ tf = tmpCreated /\ tf > 0
    /\ pc \notin {"urlopen", "write", "gpg"} => tmpfiles = {} /\ tf = 0

C7_Witness == pc = "except" /\ exc = "write" /\ tmpCreated = 2

\* C8 as stated: every component with a non-empty signature_url has had
\* exactly one GET attempted when its line is printed.
C8_ExactlyOneGet ==
    lastLine.kind \in {"error", "status"} =>
        /\ fetches = 1
        /\ inspections <= 1
        /\ inspections = 1 => written

\* C8 amended: at most one GET is attempted per component, exactly one unless
\* the creation of the temporary file failed (then none); the inspector runs at
\* most once and only after the fetch succeeded and the body was written.
C8_AtMostOneGet ==
    /\ fetches <= 1
    /\ inspections <= 1
    /\ inspections = 1 => fetches = 1 /\ written
    /\ written => fetches = 1
    /\ lastLine.kind = "status" => fetches = 1 /\ inspections = 1
    /\ lastLine.kind = "error" =>
          /\ fetches = 1 <=> lastLine.msg # "mkstemp"
          /\ inspections = 1 <=> lastLine.msg = "gpg"

C8_Witness ==
    /\ lastLine.kind = "error"
    /\ lastLine.msg = "gpg"
    /\ fetches = 1
    /\ inspections = 1

\* C9: headers appear in the stored order of the channels, each header comes
\* before the lines of its channel, the lines of a channel are in ascending
\* lexicographic order of component name, and a component in flight has no
\* line yet while every line of its channel belongs to a smaller name.
C9_ReportOrder ==
    LET headers == SelectSeq(report, LAMBDA e : e.kind = "header")
        comps   == {j \in 1..Len(report) : report[j].kind = "component"}
    IN  /\ Len(headers) = chanIdx
        /\ \A i \in 1..Len(headers) : headers[i].channel = Channels(lock)[i].name
        /\ \A j \in comps :
              \E h \in 1..(j - 1) :
                  /\ report[h].kind = "header"
                  /\ report[h].channel = report[j].channel
                  /\ \A m \in (h + 1)..j : m \in comps
        /\ \A j, k \in comps :
              (j < k /\ report[j].channel = report[k].channel) =>
                  StrLess(report[j].name, report[k].name)
        /\ InFlight =>
              \A j \in comps :
                  report[j].channel = channel_name =>
                      StrLess(report[j].name, component_name)

C9_Witness ==
    /\ pc = "done"
    /\ Len(Channels(lock)) = 2
    /\ Channels(lock)[1].items = << <<"a", "b">>, <<"B">> >>
    /\ CompLines(report) = 2

HexAnyCase == HexDigits \cup {"a", "b", "c", "d", "e", "f"}

RunStarts(line) ==
    {p \in 1..Len(line) :
        /\ p + FprLen - 1 <= Len(line)
        /\ \A k \in 0..(FprLen - 1) : line[p + k] \in HexAnyCase}

FirstRun(line) ==
    IF RunStarts(line) = {} THEN <<>>
    ELSE LET p == CHOOSE q \in RunStarts(line) : \A r \in RunStarts(line) : q <= r
         IN  Upper(SubSeq(line, p, p + FprLen - 1))

\* C10 as stated: the first line containing the marker decides the result,
\* which is that line's first run of 40 hex characters uppercased, or empty.
C10_FirstMarkerLineDecides ==
    pc = "compare" =>
        LET ls == SplitLines(out)
            M  == {i \in 1..Len(ls) : Contains(ls[i], Marker)}
        IN  IF M = {} THEN actual = <<>>
            ELSE actual = FirstRun(ls[CHOOSE i \in M : \A j \in M : i <= j])

\* C10 amended: the first line that contains the marker and a run of 40 hex
\* characters decides; the result is empty if no line has both, and is always
\* empty or 40 characters of 0-9A-F.
C10_FirstMatchingLineDecides ==
    pc = "compare" =>
        LET ls == SplitLines(out)
            M  == {i \in 1..Len(ls) : Contains(ls[i], Marker) /\ RunStarts(ls[i]) # {}}
        IN  /\ IF M = {} THEN actual = <<>>
               ELSE actual = FirstRun(ls[CHOOSE i \in M : \A j \in M : i <= j])
            /\ \/ actual = <<>>
               \/ Len(actual) = FprLen /\ \A i \in 1..FprLen : actual[i] \in HexDigits

C10_Witness ==
    /\ pc = "compare"
    /\ out = Marker \o <<"\n">> \o FprOther \o <<" ">> \o Marker \o <<" ">> \o FprMixed \o <<"\n">>
    /\ actual = FprOther

====
